---- MODULE Spec2Model ----
(***************************************************************************)
(* The toast engine of sonner-solidjs (src/src/index.tsx): the Toaster's   *)
(* display list and Height Ledger, and per Toast component the removal     *)
(* sequence, the auto-close timer and the swipe gesture.  Time is the      *)
(* value of new Date().getTime() in milliseconds; setTimeout callbacks are *)
(* kept in one queue in the order they were scheduled.                     *)
(***************************************************************************)
EXTENDS Integers, Sequences, FiniteSets, TLC

\* ---- program constants (src/src/index.tsx) ----
TOAST_LIFETIME == 4000
GAP == 14
SWIPE_THRESHOLD == 45
TIME_BEFORE_UNMOUNT == 200

\* ---- bounds of the model ----
MaxIds == 1          \* notification ids are 1..MaxIds
Quantum == 100       \* milliseconds the clock advances in one Tick
MaxTime == 400       \* the clock stops advancing at this time
MaxCalls == 2        \* callback invocation counters saturate here
MaxPublish == 2      \* publish calls in one behaviour
MaxFrames == 2       \* DismissSignals waiting for an animation frame
MaxRemovals == 2     \* scheduled removals of one id waiting at a time
MaxLayoutIds == 3    \* notifications of a stack are 1..MaxLayoutIds
MaxDeferred == 2     \* registry events useSonner has deferred and not yet applied
MaxListIds == 2      \* notifications of a list of several are 1..MaxListIds
MaxListPublish == 3  \* publish calls in one behaviour of such a list

IDs == 1..MaxIds
\* The ids of a stack of notifications, and every id of the model.
LayoutIDs == 1..MaxLayoutIds
ListIDs == 1..MaxListIds
Slots == IDs \cup LayoutIDs \cup ListIDs

\* ---- values ----
\* A duration or a remaining time: undefined, Infinity or a number of ms.
Undefined == [def |-> FALSE, inf |-> FALSE, ms |-> 0]
Infinity == [def |-> TRUE, inf |-> TRUE, ms |-> 0]
Ms(n) == [def |-> TRUE, inf |-> FALSE, ms |-> n]

NoPosition == "undefined"
\* The Toaster's position prop default (index.tsx:544).
position == "bottom-right"

\* A swipe amount is the rational n/d, d > 0 (the dampened amount is a fraction).
Rat(n, d) == [n |-> n, d |-> d]
Zero == Rat(0, 1)
Abs(x) == IF x < 0 THEN -x ELSE x
Max(a, b) == IF a >= b THEN a ELSE b
Min(a, b) == IF a <= b THEN a ELSE b

VARIABLES
    registry,            \* ToastState.toasts: the records the registry has published
    toasts,              \* toastsStore.toasts, newest first
    heights,             \* the Height Ledger: <<[toastId, height, position]>>
    expanded,            \* Toaster signal
    interacting,         \* Toaster signal
    hidden,              \* useIsDocumentHidden()
    comp,                \* per id: the state of its Toast component
    timeouts,            \* pending setTimeout callbacks, in scheduling order
    raf,                 \* pending requestAnimationFrame callbacks (ids to flag)
    now,                 \* new Date().getTime()
    durationFromToaster, \* the Toaster's duration prop
    published,           \* number of publish calls so far
    pointer,             \* the user's pointer: over the list, button down, and
                         \* the toast that holds its capture (0: none)
    headless,            \* useSonner: subscribed, activeToasts, deferred callbacks
    obs                  \* per id: what an observer of the callbacks has seen

vars == <<registry, toasts, heights, expanded, interacting, hidden, comp,
          timeouts, raf, now, durationFromToaster, published, pointer, headless,
          obs>>

\* The state as one record, so that a handler is a function from state to state.
Cur == [registry |-> registry, toasts |-> toasts, heights |-> heights,
        expanded |-> expanded, interacting |-> interacting, hidden |-> hidden,
        comp |-> comp, timeouts |-> timeouts, raf |-> raf, now |-> now,
        pointer |-> pointer, headless |-> headless, obs |-> obs]

\* ---- sequences ----
RECURSIVE FindIndex(_, _, _)
\* Array.prototype.findIndex on the toastId / id field: 0-based, -1 when absent.
FindIndex(s, id, k) ==
    IF k > Len(s) THEN -1
    ELSE IF s[k].id = id THEN k - 1
    ELSE FindIndex(s, id, k + 1)

IdsOf(s) == {s[k].id : k \in 1..Len(s)}
Without(s, id) == SelectSeq(s, LAMBDA e : e.id # id)
TheToast(w, id) == w.toasts[FindIndex(w.toasts, id, 1) + 1]

\* ---- the Toast component ----
NoComp == [alive |-> FALSE, removed |-> FALSE, offsetBeforeRemove |-> 0,
           remainingTime |-> Undefined, closeTimerStartTimeRef |-> 0,
           lastCloseTimerStartTimeRef |-> 0, newHeight |-> 0,
           swipeDirection |-> "null", swipeOutDirection |-> "null",
           swiping |-> FALSE, swipeOut |-> FALSE, isSwiped |-> FALSE,
           pointerStartRef |-> "null", dragStartTime |-> <<>>,
           swipeAmountX |-> Zero, swipeAmountY |-> Zero]

\* onAutoClose / onDismiss: invocations; closedBy: the first trigger of the
\* removal; unpaused: milliseconds a timeout of the timer has been pending.
NoObs == [onAutoClose |-> 0, onDismiss |-> 0, closedBy |-> "none", unpaused |-> 0]

\* ---- Layout Engine (Toast: heightIndex, toastsHeightBefore, offset) ----
RECURSIVE FindHeight(_, _, _)
\* heights.findIndex((height) => height.toastId === id): 0-based, -1 when absent.
FindHeight(hs, id, k) ==
    IF k > Len(hs) THEN -1
    ELSE IF hs[k].toastId = id THEN k - 1
    ELSE FindHeight(hs, id, k + 1)

\* The heights prop of a Toast: the ledger filtered by the record's own position.
PropsHeights(w, id) ==
    SelectSeq(w.heights, LAMBDA h : h.position = TheToast(w, id).position)

\* findIndex(...) || 0 : a 0 stays 0, every other value (-1 included) is kept.
heightIndex(w, id) ==
    LET found == FindHeight(PropsHeights(w, id), id, 1)
    IN  IF found = 0 THEN 0 ELSE found

RECURSIVE SumHeights(_, _)
SumHeights(hs, n) == IF n <= 0 THEN 0 ELSE hs[n].height + SumHeights(hs, n - 1)

toastsHeightBefore(w, id) ==
    SumHeights(PropsHeights(w, id), Min(heightIndex(w, id), Len(PropsHeights(w, id))))

offset(w, id) == heightIndex(w, id) * GAP + toastsHeightBefore(w, id)

\* What the style attribute reports as --offset.
ReportedOffset(w, id) ==
    IF w.comp[id].removed THEN w.comp[id].offsetBeforeRemove ELSE offset(w, id)

\* The records the <ol> of position p renders, in display order.
DisplayList(w, p) ==
    SelectSeq(w.toasts,
              LAMBDA t : (t.position = NoPosition /\ p = position) \/ t.position = p)

\* props.index: the index of the record in the list it is rendered in.
DisplayIndex(w, id) ==
    LET t == TheToast(w, id)
    IN  FindIndex(DisplayList(w, IF t.position = NoPosition THEN position
                                 ELSE t.position), id, 1)

\* What the style attribute reports as --z-index: the toasts prop of a Toast
\* holds the records whose position equals its own.
zIndex(w, id) ==
    LET propsToasts ==
            SelectSeq(w.toasts, LAMBDA t : t.position = TheToast(w, id).position)
    IN  Len(propsToasts) - DisplayIndex(w, id)

\* ---- Timer Controller (the timer effect of Toast) ----
\* A cleanup that leaves the timeout of the previous run pending.
ClearAuto_KeepsTimeout(tm, id) == tm

\* onCleanup of the timer effect: clearTimeout(timeoutId).
ClearAuto(tm, id) == SelectSeq(tm, LAMBDA e : ~(e.kind = "auto" /\ e.id = id))
AutoPending(tm, id) == \E k \in 1..Len(tm) : tm[k].kind = "auto" /\ tm[k].id = id

\* remainingTime - elapsedTime; Infinity - n is Infinity.
Minus(r, n) == IF r.inf THEN r ELSE Ms(r.ms - n)

\* pauseTimer without the comparison of the two timestamps.
pauseTimer_Unguarded(c, t) ==
    [c EXCEPT
        !.remainingTime = Minus(c.remainingTime, t - c.closeTimerStartTimeRef),
        !.lastCloseTimerStartTimeRef = t]

pauseTimer(c, t) ==
    [c EXCEPT
        !.remainingTime =
            IF c.lastCloseTimerStartTimeRef < c.closeTimerStartTimeRef
            THEN Minus(c.remainingTime, t - c.closeTimerStartTimeRef)
            ELSE c.remainingTime,
        !.lastCloseTimerStartTimeRef = t]

\* startTimer without the Infinity guard: setTimeout(, Infinity) is a delay of 0.
startTimer_NoInfinityGuard(w, id) ==
    [w EXCEPT
        !.comp[id].closeTimerStartTimeRef = w.now,
        !.timeouts = Append(w.timeouts,
            [kind |-> "auto", id |-> id,
             due |-> w.now + Max(0, w.comp[id].remainingTime.ms)])]

\* A negative delay is a delay of 0.
startTimer(w, id) ==
    LET c == w.comp[id]
    IN  IF c.remainingTime.inf THEN w
        ELSE [w EXCEPT
                !.comp[id].closeTimerStartTimeRef = w.now,
                !.timeouts = Append(w.timeouts,
                    [kind |-> "auto", id |-> id,
                     due |-> w.now + Max(0, c.remainingTime.ms)])]

\* One run of the effect: the cleanup of the previous run, then the body.
TimerEffect(w, id) ==
    LET w1 == [w EXCEPT !.timeouts = ClearAuto(w.timeouts, id)]
        t == TheToast(w1, id)
    IN  IF t.duration = Infinity \/ t.type = "loading" THEN w1
        ELSE IF w1.expanded \/ w1.interacting \/ w1.hidden
             THEN [w1 EXCEPT !.comp[id] = pauseTimer(w1.comp[id], w1.now)]
             ELSE startTimer(w1, id)

\* The signals the last run of the effect read (|| stops at the first true one).
TimerDeps(w, id) ==
    LET t == TheToast(w, id)
    IN  IF t.duration = Infinity THEN {"duration"}
        ELSE IF t.type = "loading" THEN {"duration", "type"}
        ELSE IF w.expanded THEN {"duration", "type", "expanded"}
        ELSE IF w.interacting THEN {"duration", "type", "expanded", "interacting"}
        ELSE {"duration", "type", "expanded", "interacting", "hidden"}

RECURSIVE RerunTimers(_, _)
RerunTimers(w, ids) ==
    IF ids = <<>> THEN w ELSE RerunTimers(TimerEffect(w, Head(ids)), Tail(ids))

\* The ids of the mounted Toast components, in display order.
RECURSIVE MountedIds(_, _)
MountedIds(w, k) ==
    IF k > Len(w.toasts) THEN <<>>
    ELSE IF w.comp[w.toasts[k].id].alive
         THEN <<w.toasts[k].id>> \o MountedIds(w, k + 1)
         ELSE MountedIds(w, k + 1)

\* setExpanded / setInteracting / the visibility signal: a write of a different
\* value reruns the timer effect of every Toast whose last run read the signal.
SetSignal(w, name, v) ==
    IF w[name] = v THEN w
    ELSE LET ids == SelectSeq(MountedIds(w, 1), LAMBDA i : name \in TimerDeps(w, i))
         IN  RerunTimers([w EXCEPT ![name] = v], ids)

\* Toaster effect: expanded is reset when the list length changes to <= 1.
LengthEffect(w) ==
    IF Len(w.toasts) <= 1 THEN SetSignal(w, "expanded", FALSE) ELSE w

\* ---- Lifecycle Coordinator (Toast: deleteToast) ----
\* A removal that leaves the Height Ledger as it is.
deleteToast_KeepsHeight(w, id) ==
    [w EXCEPT
        !.comp[id].removed = TRUE,
        !.comp[id].offsetBeforeRemove = offset(w, id),
        !.timeouts = Append(w.timeouts,
            [kind |-> "remove", id |-> id, due |-> w.now + TIME_BEFORE_UNMOUNT])]

deleteToast(w, id) ==
    [w EXCEPT
        !.comp[id].removed = TRUE,
        !.comp[id].offsetBeforeRemove = offset(w, id),
        !.heights = SelectSeq(w.heights, LAMBDA h : h.toastId # id),
        !.timeouts = Append(w.timeouts,
            [kind |-> "remove", id |-> id, due |-> w.now + TIME_BEFORE_UNMOUNT])]

\* The effect on toast.delete.
DeleteEffect(w, id) == IF TheToast(w, id).delete THEN deleteToast(w, id) ELSE w

\* A record effect that prepends an entry whether or not the id has one.
HeightsEffect_AlwaysPrepends(w, id) ==
    LET t == TheToast(w, id)
        pos == IF t.position # NoPosition THEN t.position ELSE position
    IN  [w EXCEPT !.heights =
            <<[toastId |-> id, height |-> w.comp[id].newHeight, position |-> pos]>>
            \o w.heights]

\* The effect created in onMount: record the measured height in the ledger.
HeightsEffect(w, id) ==
    LET t == TheToast(w, id)
        pos == IF t.position # NoPosition THEN t.position ELSE position
        h == w.comp[id].newHeight
    IN  IF FindHeight(w.heights, id, 1) = -1
        THEN [w EXCEPT !.heights =
                <<[toastId |-> id, height |-> h, position |-> pos]>> \o w.heights]
        ELSE [w EXCEPT !.heights =
                [k \in 1..Len(w.heights) |->
                    IF w.heights[k].toastId = id
                    THEN [w.heights[k] EXCEPT !.height = h]
                    ELSE w.heights[k]]]

\* ---- mounting and unmounting a Toast component ----
\* toast.duration ?? durationFromToaster ?? TOAST_LIFETIME, read once at creation.
InitialRemaining(t) ==
    IF t.duration.def THEN t.duration
    ELSE IF durationFromToaster.def THEN durationFromToaster
    ELSE Ms(TOAST_LIFETIME)

\* A new component (h is the height the rendering layer measures in onMount);
\* its effects then run in the order they were queued.
CreateComp(w, id, h) ==
    LET c == [NoComp EXCEPT !.alive = TRUE,
                            !.remainingTime = InitialRemaining(TheToast(w, id)),
                            !.newHeight = h]
        w1 == [w EXCEPT !.comp[id] = c]
    IN  HeightsEffect(DeleteEffect(TimerEffect(w1, id), id), id)

\* Disposal: the cleanup of the timer effect clears its timeout; the timeouts
\* deleteToast scheduled are not cleared.  An element that leaves the document
\* releases the pointer capture it holds.
DisposeComp(w, id) ==
    [w EXCEPT !.comp[id] = NoComp, !.timeouts = ClearAuto(w.timeouts, id),
              !.pointer.captured = IF @ = id THEN 0 ELSE @]

\* The <ol> a record is rendered in: the Toaster's own position when it has none.
ListOf(t) == IF t.position = NoPosition THEN position ELSE t.position

\* ---- Notification Registry (ToastState; its source is not part of src/) ----
\* action / cancel: the record carries an Action for that button; throws: the
\* onDismiss and onAutoClose callbacks it carries throw when invoked.
NewRecord(id) == [id |-> id, type |-> "default", duration |-> Undefined,
                  dismissible |-> TRUE, position |-> NoPosition,
                  action |-> FALSE, cancel |-> FALSE, throws |-> FALSE]

\* New fields override, unspecified fields are retained.
Merge(old, data) ==
    [f \in DOMAIN old |-> IF f \in DOMAIN data THEN data[f] ELSE old[f]]

\* ---- Toaster: the ToastState subscriber ----
StoreRecord(r) ==
    [id |-> r.id, type |-> r.type, duration |-> r.duration,
     dismissible |-> r.dismissible, position |-> r.position,
     action |-> r.action, cancel |-> r.cancel, throws |-> r.throws,
     delete |-> FALSE]

\* Update branch: reconcile(toast) makes the stored record equal to the published
\* one (a key the published record lacks, delete, is unset), in place.
UpdateInPlace(w, r, h) ==
    LET k == FindIndex(w.toasts, r.id, 1) + 1
        old == w.toasts[k]
        new == StoreRecord(r)
        deps == TimerDeps(w, r.id)
        w1 == [w EXCEPT !.toasts[k] = new]
        w2 == IF \/ (old.duration # new.duration /\ "duration" \in deps)
                 \/ (old.type # new.type /\ "type" \in deps)
              THEN TimerEffect(w1, r.id) ELSE w1
    IN  IF ListOf(old) # ListOf(new)
        THEN CreateComp(DisposeComp(w1, r.id), r.id, h)
        ELSE IF old.position # new.position THEN HeightsEffect(w2, r.id) ELSE w2

\* Insert branch: toasts.unshift(toast).
InsertNew(w, r, h) ==
    LET w1 == [w EXCEPT !.toasts = <<StoreRecord(r)>> \o w.toasts,
                        !.obs[r.id] = NoObs]
    IN  CreateComp(LengthEffect(w1), r.id, h)

\* A subscriber that puts every published record first in the list.
OnPublish_AlwaysInserts(w, r, h) == InsertNew(w, r, h)

OnPublish(w, r, h) ==
    IF FindIndex(w.toasts, r.id, 1) # -1 THEN UpdateInPlace(w, r, h)
    ELSE InsertNew(w, r, h)

\* ---- useSonner: the headless list ----
NoHeadless == [subscribed |-> FALSE, activeToasts |-> <<>>, deferred |-> <<>>]

\* The subscriber of useSonner: both branches defer their work with setTimeout.
HeadlessReceive(w, e) ==
    IF w.headless.subscribed
    THEN [w EXCEPT !.headless.deferred = Append(@, e)]
    ELSE w

\* A publish branch that puts every record first in the list.
HeadlessUpsert_AlwaysPrepends(list, r) == <<r>> \o list

\* The deferred callback of the publish branch: an existing record is replaced
\* in place by { ...existing, ...toast }, a new one is put first.
HeadlessUpsert(list, r) ==
    LET k == FindIndex(list, r.id, 1) + 1
    IN  IF k # 0 THEN [list EXCEPT ![k] = Merge(list[k], r)]
        ELSE <<r>> \o list

\* A deferred callback runs: the dismiss branch filters the id out of the list.
HeadlessRun(w) ==
    LET e == Head(w.headless.deferred)
        list == w.headless.activeToasts
    IN  [w EXCEPT !.headless.deferred = Tail(@),
                  !.headless.activeToasts =
                      IF e.dismiss THEN Without(list, e.id)
                      ELSE HeadlessUpsert(list, e.toast)]

\* ToastState.publish of the merged record / ToastState.dismiss: every
\* subscriber is called with the event.
RegistryPublish(w, id, data, h) ==
    LET prior == IF \E r \in w.registry : r.id = id
                 THEN CHOOSE r \in w.registry : r.id = id
                 ELSE NewRecord(id)
        merged == Merge(prior, data)
        w1 == [w EXCEPT !.registry = (w.registry \ {prior}) \cup {merged}]
    IN  HeadlessReceive(OnPublish(w1, merged, h),
                        [dismiss |-> FALSE, id |-> id, toast |-> merged])

RegistryDismiss(w, id) ==
    HeadlessReceive([w EXCEPT !.raf = Append(w.raf, id)],
                    [dismiss |-> TRUE, id |-> id])

\* The frame callback: t.delete = true on every record with the id; the delete
\* effect of a Toast runs when its flag changed.
FlagDeleted(w, id) ==
    LET k == FindIndex(w.toasts, id, 1) + 1
    IN  IF k = 0 \/ w.toasts[k].delete THEN w
        ELSE DeleteEffect([w EXCEPT !.toasts[k].delete = TRUE], id)

\* ---- Toaster: removeToast ----
removeToast(w, id) ==
    LET k == FindIndex(w.toasts, id, 1) + 1
        flagged == k # 0 /\ w.toasts[k].delete
        w1 == IF ~flagged THEN RegistryDismiss(w, id) ELSE w
        w2 == [w1 EXCEPT !.toasts = Without(w1.toasts, id)]
    IN  IF k = 0 THEN w1
        ELSE LengthEffect(DisposeComp(w2, id))

\* ---- Swipe Gesture State Machine (Toast pointer handlers) ----
\* position.split('-'): both parts are pushed ("center" included).
getDefaultSwipeDirections(pos) ==
    CASE pos = "bottom-right" -> {"bottom", "right"}
      [] pos = "bottom-left" -> {"bottom", "left"}
      [] pos = "bottom-center" -> {"bottom", "center"}
      [] pos = "top-right" -> {"top", "right"}
      [] pos = "top-left" -> {"top", "left"}
      [] pos = "top-center" -> {"top", "center"}

\* delta * getDampening(delta) = delta / (1.5 + |delta| / 20) = 20 delta / (30 + |delta|)
Dampened(delta) == Rat(20 * delta, 30 + Abs(delta))

\* An amount that is the raw delta whatever its direction.
AxisAmount_Undamped(delta, dirs, neg, pos) ==
    IF neg \in dirs \/ pos \in dirs THEN Rat(delta, 1) ELSE Zero

\* The amount applied on one axis; neg / pos are the directions of the two signs.
AxisAmount(delta, dirs, neg, pos) ==
    IF neg \in dirs \/ pos \in dirs
    THEN IF (neg \in dirs /\ delta < 0) \/ (pos \in dirs /\ delta > 0)
         THEN Rat(delta, 1)
         ELSE IF Abs(Dampened(delta).n) < Abs(delta) * Dampened(delta).d
              THEN Dampened(delta) ELSE Rat(delta, 1)
    ELSE Zero

\* onPointerDown without the test of toast.dismissible.
onPointerDown_IgnoresDismissible(w, id, target) ==
    LET t == TheToast(w, id)
    IN  IF t.type = "loading" THEN w
        ELSE LET w1 == [w EXCEPT !.comp[id].dragStartTime = <<w.now>>,
                                 !.comp[id].offsetBeforeRemove = offset(w, id),
                                 !.pointer.captured = id]
             IN  IF target = "button" THEN w1
                 ELSE [w1 EXCEPT !.comp[id].swiping = TRUE,
                                 !.comp[id].pointerStartRef = "set"]

onPointerDown(w, id, target) ==
    LET t == TheToast(w, id)
    IN  IF t.type = "loading" \/ ~t.dismissible THEN w
        ELSE LET w1 == [w EXCEPT !.comp[id].dragStartTime = <<w.now>>,
                                 !.comp[id].offsetBeforeRemove = offset(w, id),
                                 !.pointer.captured = id]
             IN  IF target = "button" THEN w1
                 ELSE [w1 EXCEPT !.comp[id].swiping = TRUE,
                                 !.comp[id].pointerStartRef = "set"]

\* An axis chosen anew by every move.
LockedAxis_Relocks(locked, xDelta, yDelta) ==
    IF Abs(xDelta) > 1 \/ Abs(yDelta) > 1
    THEN (IF Abs(xDelta) > Abs(yDelta) THEN "x" ELSE "y")
    ELSE locked

\* swipeDirection() after "Determine swipe direction if not already locked".
LockedAxis(locked, xDelta, yDelta) ==
    IF locked = "null" /\ (Abs(xDelta) > 1 \/ Abs(yDelta) > 1)
    THEN (IF Abs(xDelta) > Abs(yDelta) THEN "x" ELSE "y")
    ELSE locked

\* The handler, given the allowed directions (props.swipeDirections is not set).
PointerMoved(w, id, xDelta, yDelta, isHighlighted, dirs) ==
    LET t == TheToast(w, id)
        c == w.comp[id]
        lock == LockedAxis(c.swipeDirection, xDelta, yDelta)
        ax == IF lock = "x" THEN AxisAmount(xDelta, dirs, "left", "right") ELSE Zero
        ay == IF lock = "y" THEN AxisAmount(yDelta, dirs, "top", "bottom") ELSE Zero
    IN  IF c.pointerStartRef = "null" \/ ~t.dismissible THEN w
        ELSE IF isHighlighted THEN w
        ELSE [w EXCEPT !.comp[id].swipeDirection = lock,
                       !.comp[id].isSwiped = (c.isSwiped \/ ax.n # 0 \/ ay.n # 0),
                       !.comp[id].swipeAmountX = ax,
                       !.comp[id].swipeAmountY = ay]

\* index.tsx: the position prop of a Toast is the position of its list.
onPointerMove(w, id, xDelta, yDelta, isHighlighted) ==
    PointerMoved(w, id, xDelta, yDelta, isHighlighted,
                 getDefaultSwipeDirections(ListOf(TheToast(w, id))))

\* part_000: the position prop of a Toast is the Toaster's position prop.
onPointerMoveVariant(w, id, xDelta, yDelta, isHighlighted) ==
    PointerMoved(w, id, xDelta, yDelta, isHighlighted,
                 getDefaultSwipeDirections(position))

Inc(n) == Min(n + 1, MaxCalls)

\* toast.onDismiss?.(toast) and toast.onAutoClose?.(toast), as an observer sees them.
CallOnDismiss(w, id) ==
    [w EXCEPT !.obs[id].onDismiss = Inc(@)]
CallOnAutoClose(w, id) ==
    [w EXCEPT !.obs[id].onAutoClose = Inc(@)]
\* The first trigger of the removal of a notification.
Trigger(w, id, by) ==
    [w EXCEPT !.obs[id].closedBy = IF @ = "none" THEN by ELSE @]

\* The commit test without the velocity.
Commits_ThresholdOnly(amount, timeTaken) ==
    Abs(amount.n) >= SWIPE_THRESHOLD * amount.d

\* |swipeAmount| >= SWIPE_THRESHOLD || |swipeAmount| / timeTaken > 0.11
\* (x / 0 is Infinity for x > 0 and NaN, which compares false, for x = 0).
Commits(amount, timeTaken) ==
    \/ Abs(amount.n) >= SWIPE_THRESHOLD * amount.d
    \/ IF timeTaken = 0 THEN amount.n # 0
       ELSE 100 * Abs(amount.n) > 11 * amount.d * timeTaken

\* A swipe-out direction taken from the vertical amount whatever the axis.
SwipeOutDirection_AlwaysVertical(c) ==
    IF c.swipeAmountY.n > 0 THEN "down" ELSE "up"

\* The argument of setSwipeOutDirection in the commit branch.
SwipeOutDirection(c) ==
    IF c.swipeDirection = "x"
    THEN (IF c.swipeAmountX.n > 0 THEN "right" ELSE "left")
    ELSE (IF c.swipeAmountY.n > 0 THEN "down" ELSE "up")

onPointerUp(w, id) ==
    LET t == TheToast(w, id)
        c == w.comp[id]
        timeTaken == w.now - c.dragStartTime[1]
        swipeAmount == IF c.swipeDirection = "x" THEN c.swipeAmountX ELSE c.swipeAmountY
        out == SwipeOutDirection(c)
        w1 == [w EXCEPT !.comp[id].pointerStartRef = "null"]
    IN  IF c.swipeOut \/ ~t.dismissible \/ c.dragStartTime = <<>> THEN w
        ELSE IF Commits(swipeAmount, timeTaken)
        THEN LET w2 == [w1 EXCEPT !.comp[id].offsetBeforeRemove = offset(w1, id)]
                 w3 == Trigger(CallOnDismiss(w2, id), id, "manual")
                 w4 == [w3 EXCEPT !.comp[id].swipeOutDirection = out]
             IN  IF t.throws THEN CallOnDismiss(w2, id)
                 ELSE [deleteToast(w4, id) EXCEPT !.comp[id].swipeOut = TRUE]
        ELSE [w1 EXCEPT !.comp[id].swipeAmountX = Zero,
                        !.comp[id].swipeAmountY = Zero,
                        !.comp[id].isSwiped = FALSE,
                        !.comp[id].swiping = FALSE,
                        !.comp[id].swipeDirection = "null"]

onDragEnd(w, id) ==
    [w EXCEPT !.comp[id].swiping = FALSE,
              !.comp[id].swipeDirection = "null",
              !.comp[id].pointerStartRef = "null"]

\* The close button is rendered when closeButton() && !toast.jsx && !isLoading().
\* The Toaster is configured with closeButton (a ToasterProps value).
closeButton(t) == TRUE
HasCloseButton(t) == closeButton(t) /\ t.type # "loading"

onCloseClick(w, id) ==
    LET t == TheToast(w, id)
    IN  IF t.type = "loading" \/ ~t.dismissible THEN w
        ELSE CallOnDismiss(Trigger(deleteToast(w, id), id, "manual"), id)

\* The cancel button: rendered when the record carries a cancel Action.
onCancelClick(w, id) ==
    IF ~TheToast(w, id).dismissible THEN w
    ELSE Trigger(deleteToast(w, id), id, "manual")

\* The action button: the Action's onClick may call event.preventDefault().
onActionClick(w, id, defaultPrevented) ==
    IF defaultPrevented THEN w
    ELSE Trigger(deleteToast(w, id), id, "manual")

\* The pointer-up handler ends in the exception of a throwing onDismiss.
onPointerUpThrows(w, id) ==
    LET t == TheToast(w, id)
        c == w.comp[id]
    IN  /\ t.throws
        /\ ~(c.swipeOut \/ ~t.dismissible \/ c.dragStartTime = <<>>)
        /\ Commits(IF c.swipeDirection = "x" THEN c.swipeAmountX ELSE c.swipeAmountY,
                   w.now - c.dragStartTime[1])

\* The timer's setTimeout callback: a throwing onAutoClose ends it.
onTimeout(w, id) ==
    IF TheToast(w, id).throws THEN CallOnAutoClose(w, id)
    ELSE deleteToast(Trigger(CallOnAutoClose(w, id), id, "timer"), id)

\* ---- inputs ----
\* What callers publish for a new notification, and as an update of it.
NewPayloads ==
    { [duration |-> Ms(100), position |-> "top-left"],
      [duration |-> Infinity],
      [type |-> "loading", position |-> "top-left"],
      [dismissible |-> TRUE] }
UpdatePayloads ==
    { [type |-> "success"], [duration |-> Ms(100)], [duration |-> Infinity] }
\* Heights the rendering layer measures.
Heights == {40}
\* Where the pointer moves to, relative to the pointer-down point, and what it hits.
Moves == {<<0, 50>>, <<0, 20>>, <<-20, 0>>}
Targets == {"toast", "content", "button"}
\* Two publishes of an id with different field sets.
ListPayloads == { [duration |-> Ms(100)], [type |-> "loading"] }
ListUpdates == { [type |-> "success"], [duration |-> Ms(100)] }
\* Moves of 50px along one axis.
DirectionMoves == {<<50, 0>>, <<-50, 0>>, <<0, 50>>, <<0, -50>>}
\* Moves of a gesture: within a pixel of the start, equal on both axes, mostly
\* along one axis, and along one axis alone in either direction.
GestureMoves ==
    {<<1, 1>>, <<2, 2>>, <<30, 5>>, <<5, 30>>, <<-20, 0>>, <<20, 0>>, <<0, -20>>,
     <<0, 50>>}

\* ---- the clock and the timeout queue ----
Removals(tm) == SelectSeq(tm, LAMBDA e : e.kind = "remove")
RemovalsPending(tm, id) ==
    Cardinality({k \in 1..Len(tm) : tm[k].kind = "remove" /\ tm[k].id = id})

\* The timeout that fires next: the earliest due, the first scheduled among equals.
IsDue(tm, k) ==
    /\ tm[k].due <= now
    /\ \A j \in 1..Len(tm) : tm[j].due > tm[k].due \/ (tm[j].due = tm[k].due /\ j >= k)
DropAt(tm, k) == SubSeq(tm, 1, k - 1) \o SubSeq(tm, k + 1, Len(tm))

\* A step to state w; the guard keeps the timeout queue bounded.
Step(w) ==
    /\ \A i \in Slots : RemovalsPending(w.timeouts, i) <= MaxRemovals
    /\ Len(w.headless.deferred) <= MaxDeferred
    /\ registry' = w.registry
    /\ toasts' = w.toasts
    /\ heights' = w.heights
    /\ expanded' = w.expanded
    /\ interacting' = w.interacting
    /\ hidden' = w.hidden
    /\ comp' = w.comp
    /\ timeouts' = w.timeouts
    /\ raf' = w.raf
    /\ now' = w.now
    /\ pointer' = w.pointer
    /\ headless' = w.headless
    /\ obs' = w.obs
    /\ UNCHANGED durationFromToaster

InitToaster ==
    /\ registry = {}
    /\ toasts = <<>>
    /\ heights = <<>>
    /\ expanded = FALSE
    /\ interacting = FALSE
    /\ hidden = FALSE
    /\ comp = [i \in Slots |-> NoComp]
    /\ timeouts = <<>>
    /\ raf = <<>>
    /\ now = Quantum
    /\ durationFromToaster \in {Undefined, Infinity}
    /\ published = 0
    /\ pointer = [over |-> FALSE, down |-> FALSE, captured |-> 0]
    /\ obs = [i \in Slots |-> NoObs]

\* The application renders a Toaster and does not call useSonner.
Init == InitToaster /\ headless = NoHeadless

\* A Toaster rendered without a duration.
InitLedger == Init /\ durationFromToaster = Undefined

\* The application renders a Toaster and calls useSonner.
InitHeadless == InitToaster /\ headless = [NoHeadless EXCEPT !.subscribed = TRUE]

\* ---- actions ----
\* toast(...) with an id: ToastState publishes and the Toaster inserts or updates.
PublishAs(id, data, h) ==
    /\ published < MaxPublish
    /\ published' = published + 1
    /\ Step(RegistryPublish(Cur, id, data, h))

InRegistry(id) == \E r \in registry : r.id = id

\* The first publish of the id.
PublishNew ==
    \E id \in IDs, h \in Heights, data \in NewPayloads :
        ~InRegistry(id) /\ PublishAs(id, data, h)

\* A later publish of the id: an update, or a publish after it was removed.
PublishUpdate ==
    \E id \in IDs, h \in Heights, data \in UpdatePayloads :
        InRegistry(id) /\ PublishAs(id, data, h)

\* toast(..., {dismissible: false})
PublishFixed ==
    \E id \in IDs, h \in Heights, data \in
            { [dismissible |-> FALSE], [dismissible |-> FALSE, duration |-> Ms(100)] } :
        ~InRegistry(id) /\ PublishAs(id, data, h)

\* toast.loading(...)
PublishLoading ==
    \E id \in IDs, h \in Heights, data \in
            { [type |-> "loading"], [type |-> "loading", duration |-> Ms(100)] } :
        ~InRegistry(id) /\ PublishAs(id, data, h)

\* toast.success(..., {id}) for a notification that is displayed.
PublishResolved ==
    \E id \in IDs, h \in Heights, data \in
            { [type |-> "success"], [type |-> "success", duration |-> Ms(100)] } :
        InRegistry(id) /\ comp[id].alive /\ PublishAs(id, data, h)

\* toast.dismiss(id)
Dismiss ==
    /\ Len(raf) < MaxFrames
    /\ \E id \in IDs : Step(RegistryDismiss(Cur, id))
    /\ UNCHANGED published

\* Publishes and dismissals in a list of several notifications.
PublishListAs(id, data, h) ==
    /\ published < MaxListPublish
    /\ published' = published + 1
    /\ Step(RegistryPublish(Cur, id, data, h))

PublishListNew ==
    \E id \in ListIDs, h \in Heights, data \in ListPayloads :
        ~InRegistry(id) /\ PublishListAs(id, data, h)

PublishListUpdate ==
    \E id \in ListIDs, h \in Heights, data \in ListUpdates :
        InRegistry(id) /\ PublishListAs(id, data, h)

DismissList ==
    /\ Len(raf) < MaxFrames
    /\ \E id \in ListIDs : Step(RegistryDismiss(Cur, id))
    /\ UNCHANGED published

\* The animation frame of the Toaster's dismiss branch.
Frame ==
    /\ raf # <<>>
    /\ LET id == Head(raf)
           w1 == [Cur EXCEPT !.raf = Tail(raf)]
           w2 == FlagDeleted(w1, id)
       IN  Step(IF w2.toasts # w1.toasts THEN Trigger(w2, id, "manual") ELSE w2)
    /\ UNCHANGED published

\* A deferred callback of useSonner runs.
HeadlessDispatch ==
    /\ headless.deferred # <<>>
    /\ Step(HeadlessRun(Cur))
    /\ UNCHANGED published

\* The timer's timeout fires.
AutoClose ==
    /\ \E k \in 1..Len(timeouts) :
         /\ IsDue(timeouts, k)
         /\ timeouts[k].kind = "auto"
         /\ Step(onTimeout([Cur EXCEPT !.timeouts = DropAt(timeouts, k)],
                           timeouts[k].id))
    /\ UNCHANGED published

\* The timeout of deleteToast fires: removeToast(toast).
Unmount ==
    /\ \E k \in 1..Len(timeouts) :
         /\ IsDue(timeouts, k)
         /\ timeouts[k].kind = "remove"
         /\ Step(removeToast([Cur EXCEPT !.timeouts = DropAt(timeouts, k)],
                             timeouts[k].id))
    /\ UNCHANGED published

\* Time passes; due timeouts and animation frames run first.
Tick ==
    /\ now + Quantum <= MaxTime
    /\ raf = <<>>
    /\ headless.deferred = <<>>
    /\ \A k \in 1..Len(timeouts) : timeouts[k].due > now
    /\ Step([Cur EXCEPT
            !.now = now + Quantum,
            !.obs = [i \in Slots |->
                        IF AutoPending(timeouts, i)
                        THEN [obs[i] EXCEPT !.unpaused = @ + Quantum]
                        ELSE obs[i]]])
    /\ UNCHANGED published

\* Time passes beyond MaxTime while a scheduled removal is still to run.
Elapse ==
    /\ now + Quantum > MaxTime
    /\ raf = <<>>
    /\ headless.deferred = <<>>
    /\ Removals(timeouts) # <<>>
    /\ \A k \in 1..Len(timeouts) : timeouts[k].due > now
    /\ Step([Cur EXCEPT !.now = now + Quantum])
    /\ UNCHANGED published

\* Time passes beyond MaxTime while a timeout of any kind is still to run.
Wait ==
    /\ now + Quantum > MaxTime
    /\ raf = <<>>
    /\ headless.deferred = <<>>
    /\ timeouts # <<>>
    /\ \A k \in 1..Len(timeouts) : timeouts[k].due > now
    /\ Step([Cur EXCEPT !.now = now + Quantum])
    /\ UNCHANGED published

\* onMouseEnter / onMouseMove of the list.
MouseEnter ==
    /\ toasts # <<>>
    /\ Step(SetSignal([Cur EXCEPT !.pointer.over = TRUE], "expanded", TRUE))
    /\ UNCHANGED published

\* onMouseLeave of the list: the pointer was over it.
MouseLeave ==
    /\ toasts # <<>>
    /\ pointer.over
    /\ LET w == [Cur EXCEPT !.pointer.over = FALSE]
       IN  Step(IF ~interacting THEN SetSignal(w, "expanded", FALSE) ELSE w)
    /\ UNCHANGED published

\* The hotkey expands the list; Escape collapses it.
Hotkey ==
    /\ Step(SetSignal(Cur, "expanded", TRUE))
    /\ UNCHANGED published

Escape ==
    /\ toasts # <<>>
    /\ Step(SetSignal(Cur, "expanded", FALSE))
    /\ UNCHANGED published

VisibilityChange ==
    /\ Step(SetSignal(Cur, "hidden", ~hidden))
    /\ UNCHANGED published

CloseClickOn(id) ==
    /\ comp[id].alive
    /\ HasCloseButton(TheToast(Cur, id))
    /\ Step(onCloseClick(Cur, id))
    /\ UNCHANGED published

CloseClick == \E id \in IDs : CloseClickOn(id)

CancelClickOn(id) ==
    /\ comp[id].alive
    /\ TheToast(Cur, id).cancel
    /\ Step(onCancelClick(Cur, id))
    /\ UNCHANGED published

ActionClickOn(id, defaultPrevented) ==
    /\ comp[id].alive
    /\ TheToast(Cur, id).action
    /\ Step(onActionClick(Cur, id, defaultPrevented))
    /\ UNCHANGED published

CancelClick == \E id \in IDs : CancelClickOn(id)
ActionClick == \E id \in IDs, defaultPrevented \in BOOLEAN : ActionClickOn(id, defaultPrevented)

\* Notifications every trigger of a removal applies to.
PublishRemoval ==
    \E id \in IDs, h \in Heights, data \in
            { [action |-> TRUE, cancel |-> TRUE, duration |-> Ms(100)],
              [action |-> TRUE, cancel |-> TRUE, duration |-> Infinity] } :
        ~InRegistry(id) /\ PublishAs(id, data, h)

\* toast(..., {onDismiss, onAutoClose}) with callbacks that throw.
PublishThrowing ==
    \E id \in IDs, h \in Heights, data \in
            { [throws |-> TRUE, duration |-> Ms(100)],
              [throws |-> TRUE, duration |-> Infinity] } :
        ~InRegistry(id) /\ PublishAs(id, data, h)

\* toast(..., {action, cancel}), dismissible or not.
PublishButtons ==
    \E id \in IDs, h \in Heights, data \in
            { [action |-> TRUE, cancel |-> TRUE],
              [action |-> TRUE, cancel |-> TRUE, dismissible |-> FALSE],
              [action |-> TRUE, cancel |-> TRUE, dismissible |-> FALSE,
               duration |-> Ms(100)] } :
        ~InRegistry(id) /\ PublishAs(id, data, h)

\* The next notification of a stack is published, with the height measured for
\* it: ids are given in order.
PublishLayout ==
    \E id \in LayoutIDs, h \in {40, 60, 50}, data \in
            { [duration |-> Infinity, position |-> "top-left"],
              [duration |-> Infinity, position |-> "bottom-right"],
              [duration |-> Infinity] } :
        /\ ~InRegistry(id)
        /\ \A j \in LayoutIDs : j < id => InRegistry(j)
        /\ published' = published + 1
        /\ Step(RegistryPublish(Cur, id, data, h))

\* The close button of a notification of the stack.
CloseClickLayout == \E id \in LayoutIDs : CloseClickOn(id)

\* A pointer-down on a toast, then on the list it bubbles to.
PointerDownOn(id, target) ==
    /\ comp[id].alive
    /\ ~pointer.down
    /\ LET w1 == onPointerDown([Cur EXCEPT !.pointer.down = TRUE], id, target)
           isNotDismissible == target = "toast" /\ ~TheToast(Cur, id).dismissible
       IN  Step(IF isNotDismissible THEN w1 ELSE SetSignal(w1, "interacting", TRUE))
    /\ UNCHANGED published

\* Pointer events go to the toast that holds the capture, if one does.
PointerMoveOn(id, m, isHighlighted) ==
    /\ comp[id].alive
    /\ pointer.captured \in {0, id}
    /\ Step(onPointerMove(Cur, id, m[1], m[2], isHighlighted))
    /\ UNCHANGED published

\* A pointer-up on a toast, then on the list: an exception thrown by the toast's
\* handler may keep the event from reaching the handler of the list.
PointerUpOn(id) ==
    /\ comp[id].alive
    /\ pointer.captured \in {0, id}
    /\ LET w1 == onPointerUp([Cur EXCEPT !.pointer.down = FALSE,
                                         !.pointer.captured = 0], id)
       IN  \/ Step(SetSignal(w1, "interacting", FALSE))
           \/ onPointerUpThrows(Cur, id) /\ Step(w1)
    /\ UNCHANGED published

\* dragend on a toast, then on the list.
DragEnd ==
    /\ \E id \in IDs :
         /\ comp[id].alive
         /\ pointer.captured \in {0, id}
         /\ Step(SetSignal(onDragEnd([Cur EXCEPT !.pointer.down = FALSE,
                                                 !.pointer.captured = 0], id),
                            "expanded", FALSE))
    /\ UNCHANGED published

PointerDown == \E id \in IDs, target \in Targets : PointerDownOn(id, target)
PointerMove ==
    \E id \in IDs, m \in Moves, isHighlighted \in BOOLEAN :
        PointerMoveOn(id, m, isHighlighted)
PointerUp == \E id \in IDs : PointerUpOn(id)

PointerMoveGesture ==
    \E id \in IDs, m \in GestureMoves, isHighlighted \in BOOLEAN :
        PointerMoveOn(id, m, isHighlighted)

\* The pointer-move handler of part_000.
PointerMoveVariantOn(id, m, isHighlighted) ==
    /\ comp[id].alive
    /\ pointer.captured \in {0, id}
    /\ Step(onPointerMoveVariant(Cur, id, m[1], m[2], isHighlighted))
    /\ UNCHANGED published

PointerMoveVariant ==
    \E id \in IDs, m \in DirectionMoves : PointerMoveVariantOn(id, m, FALSE)

\* Notifications at screen positions of their own and at the Toaster's.
PublishPositioned ==
    \E id \in IDs, h \in Heights, data \in
            { [position |-> "top-center", duration |-> Infinity],
              [position |-> "bottom-left", duration |-> Infinity],
              [duration |-> Infinity] } :
        ~InRegistry(id) /\ PublishAs(id, data, h)

\* A swipe of 50px towards the bottom edge: its pointer-down and its move.
SwipeStart == \E id \in IDs : PointerDownOn(id, "toast")
SwipeDown == \E id \in IDs : PointerMoveOn(id, <<0, 50>>, FALSE)

\* A notification of a list is published or updated, with a position or
\* without, and the rendering layer measures one of two heights for it.
PublishMeasured ==
    \E id \in ListIDs, h \in {40, 60}, data \in
            { [position |-> "top-left", duration |-> Infinity],
              [position |-> "bottom-right", duration |-> Infinity],
              [duration |-> Infinity] } :
        PublishListAs(id, data, h)

\* The lifecycle of a notification: registry events, timers, attention signals
\* and the close button.
Spec == Init /\ [][
        \/ PublishNew \/ PublishUpdate \/ Dismiss \/ Frame \/ AutoClose \/ Unmount
        \/ Tick \/ MouseEnter \/ MouseLeave \/ Hotkey \/ Escape \/ VisibilityChange
        \/ CloseClick
      ]_vars

\* The timer of a notification under pause and resume alone: it is published
\* once and never updated or closed by hand.
SpecTimer == Init /\ [][
        \/ PublishNew \/ AutoClose \/ Unmount \/ Tick
        \/ MouseEnter \/ MouseLeave \/ Hotkey \/ Escape \/ VisibilityChange
      ]_vars

\* The gesture on a notification whose timer runs: pointer events, the close
\* button, time.
SpecPointer == Init /\ [][
        \/ PublishNew \/ PublishFixed \/ AutoClose \/ Unmount \/ Tick
        \/ PointerDown \/ PointerMove \/ PointerUp \/ DragEnd \/ CloseClick
      ]_vars

\* The attention signals of the list: hover, pointer interaction, visibility.
SpecAttention == Init /\ [][
        \/ PublishNew \/ AutoClose \/ Unmount \/ Tick
        \/ MouseEnter \/ MouseLeave \/ PointerDown \/ PointerUp \/ VisibilityChange
      ]_vars

\* A loading notification and its resolution, with hover and time.
SpecLoading == Init /\ [][
        \/ PublishLoading \/ PublishResolved \/ AutoClose \/ Unmount \/ Tick
        \/ MouseEnter \/ MouseLeave
      ]_vars

\* A stack of notifications at one instant: publishes and close buttons.
SpecLayout == Init /\ [][
        \/ PublishLayout
        \/ CloseClickLayout
      ]_vars

\* The buttons of a notification, with the timer and toast.dismiss.
SpecButtons == Init /\ [][
        \/ PublishButtons \/ CloseClick \/ CancelClick \/ ActionClick
        \/ Dismiss \/ Frame \/ AutoClose \/ Unmount \/ Tick
      ]_vars

\* The registry's events as the Toaster and useSonner apply them.
SpecHeadless == InitHeadless /\ [][
        \/ PublishNew \/ PublishUpdate \/ Dismiss \/ Frame \/ HeadlessDispatch
        \/ AutoClose \/ Unmount \/ Tick
      ]_vars

\* Several notifications published and updated at one instant.
SpecMerge == InitHeadless /\ [][
        \/ PublishListNew \/ PublishListUpdate \/ DismissList \/ Frame \/ HeadlessDispatch
      ]_vars

\* What is, or will become, a scheduled removal of the id: the user acts only
\* as long as every callback that is waiting can still run within MaxRemovals.
Room ==
    \A id \in IDs :
        RemovalsPending(timeouts, id)
        + Cardinality({k \in 1..Len(raf) : raf[k] = id})
        + (IF AutoPending(timeouts, id) THEN 1 ELSE 0) <= MaxRemovals

\* Every trigger of a removal.  Callbacks that are due run, animation frames
\* run, and time passes: a frame runs every callback requested before it, so
\* the queue of requested callbacks is empty again and again.
SpecRemoval ==
    /\ Init /\ durationFromToaster = Undefined /\ [][
        \/ PublishRemoval \/ AutoClose \/ Unmount \/ Tick \/ Elapse \/ Frame
        \/ (CloseClick /\ Room') \/ (CancelClick /\ Room') \/ (ActionClick /\ Room')
        \/ (Dismiss /\ Room') \/ (SwipeStart /\ Room') \/ (SwipeDown /\ Room')
        \/ (PointerUp /\ Room')
      ]_vars
    /\ WF_vars(AutoClose) /\ WF_vars(Unmount) /\ WF_vars(Frame)
    /\ []<>(raf = <<>>)
    /\ SF_vars(Tick) /\ SF_vars(Elapse)

\* A notification whose callbacks throw: its timer, a swipe, the close button.
SpecThrow == Init /\ [][
        \/ PublishThrowing \/ AutoClose \/ Unmount \/ Tick
        \/ SwipeStart \/ SwipeDown \/ PointerUp \/ CloseClick
      ]_vars

\* Swipes on notifications of several screen positions, in the variant whose
\* Toaster hands its own position prop to every Toast.
SpecDirections == Init /\ [][
        \/ PublishPositioned \/ SwipeStart \/ PointerMoveVariant \/ PointerUp
        \/ Unmount \/ Tick
      ]_vars

\* Gestures on notifications of several screen positions.
SpecGesture == Init /\ [][
        \/ PublishPositioned \/ PointerDown \/ PointerMoveGesture \/ PointerUp
        \/ DragEnd \/ Unmount \/ Tick
      ]_vars

\* The Height Ledger under publishes, updates and removals of two notifications.
SpecLedger == InitLedger /\ [][
        \/ PublishMeasured \/ CloseClickLayout \/ Frame \/ Unmount \/ Tick
      ]_vars

\* A notification that is created as loading and resolved, under hover that
\* begins before MaxTime, until every timeout has run: timeouts that are due
\* fire, and time passes.
SpecExpiry ==
    /\ Init /\ [][
        \/ PublishLoading \/ PublishResolved \/ AutoClose \/ Unmount
        \/ Tick \/ Wait \/ (now < MaxTime /\ MouseEnter) \/ (MouseLeave /\ Room')
      ]_vars
    /\ WF_vars(AutoClose) /\ WF_vars(Unmount)
    /\ SF_vars(Tick) /\ SF_vars(Wait)

\* ---- consistency of the model ----
TypeOK ==
    /\ IdsOf(toasts) = {i \in Slots : comp[i].alive}
    /\ Len(toasts) = Cardinality(IdsOf(toasts))
    /\ \A k \in 1..Len(timeouts) :
         timeouts[k].kind = "auto" => comp[timeouts[k].id].alive
    /\ pointer.captured # 0 => (pointer.down /\ comp[pointer.captured].alive)

\* ---- the claims ----

\* C1: a DismissSignal (the delete flag it sets) that reaches a notification
\* already pending removal changes nothing: the frozen exit offset, the Height
\* Ledger and the scheduled removals stay as they are.
C1_DismissWhilePendingIsNoOp ==
    [][\A id \in IDs :
        (/\ raf # <<>> /\ Head(raf) = id /\ raf' = Tail(raf)
         /\ comp[id].alive /\ comp[id].removed)
        => (/\ comp'[id].offsetBeforeRemove = comp[id].offsetBeforeRemove
            /\ heights' = heights
            /\ Removals(timeouts') = Removals(timeouts))]_vars

\* C2: removeToast finds the record it removes: a scheduled removal never runs
\* for an id that is no longer in the display list, so no DismissSignal is
\* published for such an id.
C2_RemovalFindsItsRecord ==
    [][\A id \in IDs :
        RemovalsPending(timeouts', id) < RemovalsPending(timeouts, id)
        => id \in IdsOf(toasts)]_vars

\* C3: once a notification was dismissed by hand before its timer fired,
\* onAutoClose is not invoked for it.
C3_NoAutoCloseAfterManualDismiss ==
    [][\A id \in IDs :
        obs[id].closedBy = "manual"
        => obs'[id].onAutoClose <= obs[id].onAutoClose]_vars

\* C4: onAutoClose is invoked at most once per notification instance.
C4_AutoCloseAtMostOnce == \A id \in IDs : obs[id].onAutoClose <= 1

\* C5: onDismiss is invoked at most once per notification instance.
C5_DismissAtMostOnce == \A id \in IDs : obs[id].onDismiss <= 1

\* C6: onDismiss and onAutoClose are never both invoked for one instance.
C6_NeverBothCallbacks ==
    \A id \in IDs : ~(obs[id].onDismiss >= 1 /\ obs[id].onAutoClose >= 1)

\* C7: while a notification is pending removal its frozen offset does not change.
C7_ExitOffsetFrozen ==
    [][\A id \in IDs :
        (comp[id].removed /\ comp'[id].removed)
        => comp'[id].offsetBeforeRemove = comp[id].offsetBeforeRemove]_vars

\* The duration a notification was created with.
DurationMs(id) == InitialRemaining(TheToast(Cur, id)).ms

\* C8: when the auto-close fires, the time the timer has been running since the
\* notification was activated equals its duration.
C8_FiresAfterDurationOfUnpausedTime ==
    [][\A id \in IDs :
        (obs[id].onAutoClose = 0 /\ obs'[id].onAutoClose = 1)
        => obs[id].unpaused = DurationMs(id)]_vars

Paused == expanded \/ interacting \/ hidden

\* C9: remainingTime is decreased only by a pause that follows a start (the last
\* pause check is earlier than the timer start), and after it the last pause
\* check is no longer earlier: a repeated pause leaves remainingTime unchanged.
C9_PauseSubtractsOncePerStart ==
    [][\A id \in IDs :
        (/\ comp[id].alive /\ comp'[id].alive
         /\ comp'[id].remainingTime # comp[id].remainingTime)
        => (/\ comp[id].lastCloseTimerStartTimeRef < comp[id].closeTimerStartTimeRef
            /\ comp'[id].lastCloseTimerStartTimeRef >= comp'[id].closeTimerStartTimeRef)]_vars

\* A timer that was started, paused with time subtracted, and paused again
\* later while still paused.
C9_Witness ==
    \E id \in IDs :
        /\ comp[id].alive /\ ~comp[id].remainingTime.inf
        /\ expanded /\ hidden
        /\ comp[id].closeTimerStartTimeRef > 0
        /\ comp[id].remainingTime.ms < DurationMs(id)
        /\ comp[id].lastCloseTimerStartTimeRef >
             comp[id].closeTimerStartTimeRef
               + (DurationMs(id) - comp[id].remainingTime.ms)

\* The duration of a notification is infinite: its own duration is Infinity, or
\* it has none and the Toaster's default is Infinity.
IsInfinite(t) ==
    \/ t.duration = Infinity
    \/ (t.duration = Undefined /\ durationFromToaster = Infinity)

\* C10: a notification of infinite duration has no timeout of its timer
\* pending, and onAutoClose is not invoked for it.
C10_InfiniteNeverExpires ==
    /\ [](\A id \in IDs :
            (comp[id].alive /\ IsInfinite(TheToast(Cur, id)))
            => ~AutoPending(timeouts, id))
    /\ [][\A id \in IDs :
            (comp[id].alive /\ IsInfinite(TheToast(Cur, id)))
            => obs'[id].onAutoClose <= obs[id].onAutoClose]_vars

\* A notification that takes the Toaster's infinite default, after a pause, a
\* resume and the passing of time.
C10_Witness ==
    \E id \in IDs :
        /\ comp[id].alive /\ ~comp[id].removed
        /\ TheToast(Cur, id).duration = Undefined /\ durationFromToaster = Infinity
        /\ comp[id].lastCloseTimerStartTimeRef > 0
        /\ ~Paused
        /\ now > comp[id].lastCloseTimerStartTimeRef

\* The notification has a timer: it is not loading and its duration is finite.
Timed(id) ==
    /\ TheToast(Cur, id).type # "loading"
    /\ TheToast(Cur, id).duration # Infinity
    /\ ~comp[id].remainingTime.inf

\* C11: while an attention signal is present (the list is expanded, a pointer
\* interaction is in progress or the document is hidden) no timeout of the
\* auto-close timer is pending for any notification.
C11_NoTimeoutWhilePaused ==
    Paused => \A id \in IDs : ~AutoPending(timeouts, id)

\* A timer that ran, and was paused by a pointer interaction alone.
C11_Witness ==
    \E id \in IDs :
        /\ comp[id].alive /\ ~comp[id].removed /\ Timed(id)
        /\ interacting /\ ~expanded /\ ~hidden
        /\ comp[id].remainingTime.ms < DurationMs(id)

\* C12: when the pointer has left the list, the pointer button is released and
\* the document is visible, no attention signal is set and every notification
\* that has a timer and is not pending removal has its timeout scheduled.
C12_TimersResumeWhenAttentionClears ==
    (~pointer.over /\ ~pointer.down /\ ~hidden)
    => /\ ~Paused
       /\ \A id \in IDs :
            (comp[id].alive /\ ~comp[id].removed /\ Timed(id))
            => AutoPending(timeouts, id)

\* C13: a loading notification has no timeout of its timer pending and
\* onAutoClose is not invoked for it; when an update makes it non-loading with
\* a finite duration, and no attention signal is present, its timeout is
\* scheduled.
C13_LoadingHasNoTimerUntilResolved ==
    /\ [](\A id \in IDs :
            (comp[id].alive /\ TheToast(Cur, id).type = "loading")
            => ~AutoPending(timeouts, id))
    /\ [][\A id \in IDs :
            (comp[id].alive /\ TheToast(Cur, id).type = "loading")
            => /\ obs'[id].onAutoClose <= obs[id].onAutoClose
               /\ (/\ comp'[id].alive
                   /\ TheToast(Cur, id)'.type # "loading"
                   /\ ~IsInfinite(TheToast(Cur, id))'
                   /\ ~Paused')
                  => AutoPending(timeouts', id)]_vars

\* The notification has a ledger entry.
HasEntry(id) == FindHeight(heights, id, 1) # -1

\* C14: the offset of a notification that has a ledger entry is the sum of the
\* heights of the entries before it in the ledger sequence of its position,
\* plus gap times its index in that sequence.
C14_OffsetIsHeightsBeforePlusGaps ==
    \A id \in LayoutIDs :
        (comp[id].alive /\ HasEntry(id))
        => LET entry == heights[FindHeight(heights, id, 1) + 1]
               seq == SelectSeq(heights, LAMBDA h : h.position = entry.position)
               k == FindHeight(seq, id, 1)
           IN  offset(Cur, id) = SumHeights(seq, k) + GAP * k

\* C15: the sequence a notification is laid out with holds the ledger entries
\* of its own position only, its own entry among them.
C15_LayoutUsesOwnPositionOnly ==
    \A id \in LayoutIDs :
        (comp[id].alive /\ HasEntry(id))
        => LET seq == PropsHeights(Cur, id)
           IN  /\ FindHeight(seq, id, 1) # -1
               /\ \A k \in 1..Len(seq) :
                    seq[k].position = ListOf(TheToast(Cur, id))

\* C16: the notification at display index 0 of a position's list has offset 0
\* unless it is pending removal.
C16_FrontHasOffsetZero ==
    \A p \in {"top-left", "top-center", "top-right",
              "bottom-left", "bottom-center", "bottom-right"} :
        LET list == DisplayList(Cur, p)
        IN  (list # <<>> /\ ~comp[list[1].id].removed)
            => ReportedOffset(Cur, list[1].id) = 0

\* C17: the z-order of a displayed notification is the number of notifications
\* in its list minus its display index, so the z-orders of one list differ.
C17_ZOrderIsCountMinusIndex ==
    \A id \in LayoutIDs :
        comp[id].alive
        => zIndex(Cur, id)
             = Len(DisplayList(Cur, ListOf(TheToast(Cur, id)))) - DisplayIndex(Cur, id)

\* A drag is in progress: a start point is recorded and the axis is locked.
InDrag(id) ==
    /\ comp[id].alive /\ TheToast(Cur, id).dismissible /\ ~comp[id].swipeOut
    /\ comp[id].pointerStartRef # "null" /\ comp[id].swipeDirection # "null"

\* The amount applied on the locked axis.
FinalSwipeAmount(id) ==
    IF comp[id].swipeDirection = "x" THEN comp[id].swipeAmountX
    ELSE comp[id].swipeAmountY

\* C18: the pointer-up of a drag dismisses the notification (one removal, one
\* onDismiss) if and only if |amount| >= 45 or |amount| / elapsed > 0.11;
\* otherwise it snaps back: amounts zero, swiped flag cleared, gesture idle, no
\* callback, no removal.
C18_PointerUpCommitsIffThresholdOrVelocity ==
    [][\A id \in IDs :
        (PointerUpOn(id) /\ InDrag(id))
        => LET a == FinalSwipeAmount(id)
               elapsed == now - comp[id].dragStartTime[1]
               fast == IF elapsed = 0 THEN a.n # 0
                       ELSE 100 * Abs(a.n) > 11 * a.d * elapsed
           IN  IF Abs(a.n) >= 45 * a.d \/ fast
               THEN /\ comp'[id].removed /\ comp'[id].swipeOut
                    /\ obs'[id].onDismiss = Min(obs[id].onDismiss + 1, MaxCalls)
                    /\ obs'[id].onAutoClose = obs[id].onAutoClose
                    /\ RemovalsPending(timeouts', id)
                         = RemovalsPending(timeouts, id) + 1
               ELSE /\ comp'[id].swipeAmountX = Zero /\ comp'[id].swipeAmountY = Zero
                    /\ ~comp'[id].isSwiped /\ ~comp'[id].swiping
                    /\ comp'[id].swipeDirection = "null"
                    /\ comp'[id].pointerStartRef = "null"
                    /\ obs'[id] = obs[id]
                    /\ comp'[id].alive /\ comp'[id].removed = comp[id].removed
                    /\ RemovalsPending(timeouts', id) = RemovalsPending(timeouts, id)]_vars

\* A 50px drag in an allowed direction was committed by its pointer-up.
C18_Witness ==
    \E id \in IDs :
        /\ comp[id].alive /\ comp[id].swipeOut /\ comp[id].removed
        /\ comp[id].swipeAmountY = Rat(50, 1)
        /\ comp[id].swipeOutDirection = "down"
        /\ obs[id].onDismiss = 1

\* C19: a pointer-up that finds no gesture in progress (none was started, or
\* drag-end aborted it) dismisses nothing.
C19_PointerUpAfterDragEndDismissesNothing ==
    [][\A id \in IDs :
        (/\ PointerUpOn(id)
         /\ comp[id].pointerStartRef = "null" /\ comp[id].swipeDirection = "null")
        => /\ comp'[id].removed = comp[id].removed
           /\ obs'[id].onDismiss = obs[id].onDismiss
           /\ RemovalsPending(timeouts', id) = RemovalsPending(timeouts, id)]_vars

\* C20: a notification that is not dismissible keeps an idle gesture state
\* under pointer events, and is never dismissed by hand.
C20_NotDismissibleStaysIdle ==
    \A id \in IDs :
        (comp[id].alive /\ ~TheToast(Cur, id).dismissible)
        => /\ comp[id].pointerStartRef = "null" /\ comp[id].dragStartTime = <<>>
           /\ comp[id].swipeDirection = "null"
           /\ comp[id].swipeAmountX = Zero /\ comp[id].swipeAmountY = Zero
           /\ ~comp[id].isSwiped /\ ~comp[id].swiping /\ ~comp[id].swipeOut
           /\ obs[id].onDismiss = 0 /\ obs[id].closedBy # "manual"

\* Pointer-down on the content of a notification that is not dismissible.
C20_Witness ==
    \E id \in IDs :
        /\ comp[id].alive /\ ~TheToast(Cur, id).dismissible
        /\ pointer.down /\ interacting

\* C21: a click on the close, cancel or action button (preventDefault not
\* called) of a notification that is not dismissible does not begin its
\* removal: it is not marked removed and no removal is scheduled.
C21_NotDismissibleIgnoresButtons ==
    [][\A id \in IDs :
        (/\ comp[id].alive /\ ~TheToast(Cur, id).dismissible
         /\ (CloseClickOn(id) \/ CancelClickOn(id) \/ ActionClickOn(id, FALSE)))
        => /\ comp'[id].removed = comp[id].removed
           /\ RemovalsPending(timeouts', id) = RemovalsPending(timeouts, id)]_vars

\* The records of a list with the id.
CountOf(list, id) == Cardinality({k \in 1..Len(list) : list[k].id = id})

\* Every field a publish can set is, after a publish of data over the record
\* old, that of data or else that of old.
IsUnion(new, old, data) ==
    \A f \in DOMAIN NewRecord(old.id) :
        new[f] = IF f \in DOMAIN data THEN data[f] ELSE old[f]

\* C22: a publish of an id the display list holds leaves the list with one
\* record of the id, at the index it had, whose fields are those of the
\* publish and, where it sets none, those the record had; and the deferred
\* callback of useSonner does the same to the headless list.
C22_PublishOfExistingIdMergesInPlace ==
    /\ [][\A id \in ListIDs, h \in Heights, data \in ListPayloads \cup ListUpdates :
            (PublishListAs(id, data, h) /\ id \in IdsOf(toasts))
            => LET k == FindIndex(toasts, id, 1) + 1
                   e == headless.deferred'[Len(headless.deferred')]
               IN  /\ Len(toasts') = Len(toasts)
                   /\ CountOf(toasts', id) = 1
                   /\ toasts'[k].id = id
                   /\ IsUnion(toasts'[k], toasts[k], data)
                   /\ ~e.dismiss /\ e.id = id
                   /\ IsUnion(e.toast, toasts[k], data)]_vars
    /\ [][(/\ headless.deferred # <<>>
           /\ headless.deferred' = Tail(headless.deferred)
           /\ ~Head(headless.deferred).dismiss
           /\ Head(headless.deferred).id \in IdsOf(headless.activeToasts))
          => LET e == Head(headless.deferred)
                 list == headless.activeToasts
                 k == FindIndex(list, e.id, 1) + 1
             IN  /\ Len(headless.activeToasts') = Len(list)
                 /\ CountOf(headless.activeToasts', e.id) = 1
                 /\ headless.activeToasts'[k].id = e.id
                 /\ IsUnion(headless.activeToasts'[k], list[k], e.toast)]_vars

\* Id 1 was published with a duration, id 2 after it, then id 1 with a type:
\* both lists hold id 1 once, second, with both fields.
C22_Witness ==
    /\ published = 3 /\ headless.deferred = <<>>
    /\ Len(toasts) = 2 /\ toasts[2].id = 1
    /\ toasts[2].duration = Ms(100) /\ toasts[2].type = "success"
    /\ Len(headless.activeToasts) = 2 /\ headless.activeToasts[2].id = 1
    /\ headless.activeToasts[2].duration = Ms(100)
    /\ headless.activeToasts[2].type = "success"

\* C23: no id occurs twice in the display list, nor in the headless list.
C23_IdsAreUniqueInBothLists ==
    \A id \in IDs :
        /\ CountOf(toasts, id) <= 1
        /\ CountOf(headless.activeToasts, id) <= 1

\* An id published twice and dismissed, every deferred callback and frame
\* run: the display list still holds it, the headless list took it back.
C23_Witness ==
    \E id \in IDs :
        /\ published = 2 /\ headless.deferred = <<>> /\ raf = <<>>
        /\ CountOf(toasts, id) = 1 /\ toasts[1].delete
        /\ CountOf(headless.activeToasts, id) = 1

\* C24: a publish of an id that was published before and is no longer in the
\* display list (it was fully removed) changes neither the display list nor
\* anything else of the Toaster.
C24_UpdateAfterRemovalIsDropped ==
    [][\A id \in IDs, h \in Heights, data \in UpdatePayloads :
        (PublishAs(id, data, h) /\ InRegistry(id) /\ id \notin IdsOf(toasts))
        => /\ toasts' = toasts /\ comp' = comp
           /\ heights' = heights /\ timeouts' = timeouts]_vars

\* C25: the events of an id reach the display list in the order they were
\* issued: no publish of the id is applied while a dismiss of it, issued
\* before, still waits for its animation frame.
C25_EventsAppliedInIssueOrder ==
    [][\A id \in IDs, h \in Heights, data \in NewPayloads \cup UpdatePayloads :
        PublishAs(id, data, h) => \A k \in 1..Len(raf) : raf[k] # id]_vars

\* The removal of the id scheduled at the time t is waiting.
RemovalDueAt(tm, id, t) ==
    \E k \in 1..Len(tm) : tm[k].kind = "remove" /\ tm[k].id = id /\ tm[k].due = t

\* C26: whatever begins the removal of a notification, the step that marks it
\* removed also takes its entry out of the Height Ledger and schedules the
\* purge for 200 ms later; the record leaves the display list when a purge of
\* it is due, not before; and a notification marked removed is eventually
\* out of the display list.
C26_RemovalIsUniformAndCompletes ==
    /\ [][\A id \in IDs :
            (comp[id].alive /\ ~comp[id].removed /\ comp'[id].removed)
            => /\ FindHeight(heights', id, 1) = -1
               /\ RemovalDueAt(timeouts', id, now + TIME_BEFORE_UNMOUNT)]_vars
    /\ [][\A id \in IDs :
            (id \in IdsOf(toasts) /\ id \notin IdsOf(toasts'))
            => /\ comp[id].removed
               /\ \E t \in 0..now : now - t < Quantum /\ RemovalDueAt(timeouts, id, t)]_vars
    /\ \A id \in IDs :
          (comp[id].alive /\ comp[id].removed) ~> (id \notin IdsOf(toasts))

\* A committed swipe began a removal: the entry is gone, the purge is waiting.
C26_Witness ==
    \E id \in IDs :
        /\ comp[id].alive /\ comp[id].removed /\ comp[id].swipeOut
        /\ FindHeight(heights, id, 1) = -1
        /\ RemovalsPending(timeouts, id) = 1

\* C27: the step in which onAutoClose or onDismiss is invoked, throwing or
\* not, leaves the notification pending removal: marked removed, without its
\* Height Ledger entry, its purge scheduled.
C27_ThrowingCallbackDoesNotAbortRemoval ==
    [][\A id \in IDs :
        (/\ comp[id].alive
         /\ \/ obs'[id].onAutoClose # obs[id].onAutoClose
            \/ obs'[id].onDismiss # obs[id].onDismiss)
        => /\ comp'[id].removed
           /\ FindHeight(heights', id, 1) = -1
           /\ RemovalsPending(timeouts', id) >= 1]_vars

\* The directions the screen position of a notification allows: its vertical
\* anchor and, unless it is centred, its horizontal anchor.
AllowedAt(pos) ==
    CASE pos = "bottom-right" -> {"bottom", "right"}
      [] pos = "bottom-left" -> {"bottom", "left"}
      [] pos = "bottom-center" -> {"bottom"}
      [] pos = "top-right" -> {"top", "right"}
      [] pos = "top-left" -> {"top", "left"}
      [] pos = "top-center" -> {"top"}

\* The direction of a move along its axis.
DirectionOf(axis, delta) ==
    IF axis = "x" THEN (IF delta < 0 THEN "left" ELSE "right")
    ELSE (IF delta < 0 THEN "top" ELSE "bottom")

\* C28: a move on a locked axis is applied at full strength exactly when its
\* direction is one the notification's own screen position allows; on an axis
\* that position allows no direction of (the x axis of a centred one) the
\* amount is zero, and the pointer-up of such a drag begins no removal.
C28_SwipeDirectionsFollowOwnPosition ==
    [][\A id \in IDs, m \in Moves \cup DirectionMoves :
        LET own == AllowedAt(ListOf(TheToast(Cur, id)))
            axis == comp'[id].swipeDirection
            delta == IF axis = "x" THEN m[1] ELSE m[2]
            amount == IF axis = "x" THEN comp'[id].swipeAmountX
                      ELSE comp'[id].swipeAmountY
            onAxis == own \cap (IF axis = "x" THEN {"left", "right"}
                                ELSE {"top", "bottom"})
        IN  /\ (/\ PointerMoveOn(id, m, FALSE) \/ PointerMoveVariantOn(id, m, FALSE)
                /\ comp[id].pointerStartRef # "null" /\ axis # "null")
               => /\ delta # 0 =>
                        ((amount = Rat(delta, 1)) <=> (DirectionOf(axis, delta) \in own))
                  /\ onAxis = {} => amount = Zero
            /\ (/\ PointerUpOn(id)
                /\ comp[id].pointerStartRef # "null" /\ comp[id].swipeDirection = "x"
                /\ own \cap {"left", "right"} = {})
               => comp'[id].removed = comp[id].removed]_vars

\* A move the handler acts on: a start point is recorded, the notification is
\* dismissible and no text is selected.
Handled(id, isHighlighted) ==
    /\ comp[id].alive /\ comp[id].pointerStartRef # "null"
    /\ TheToast(Cur, id).dismissible /\ ~isHighlighted

C30_AmountIsRawOrDampened ==
    [][\A id \in IDs, m \in GestureMoves :
        LET own == AllowedAt(ListOf(TheToast(Cur, id)))
            axis == comp'[id].swipeDirection
            delta == IF axis = "x" THEN m[1] ELSE m[2]
            amount == IF axis = "x" THEN comp'[id].swipeAmountX
                      ELSE comp'[id].swipeAmountY
            onAxis == own \cap (IF axis = "x" THEN {"left", "right"}
                                ELSE {"top", "bottom"})
        IN  (/\ PointerMoveOn(id, m, FALSE) /\ Handled(id, FALSE)
             /\ axis # "null" /\ onAxis # {})
            => /\ amount.d > 0
               /\ (delta # 0 /\ DirectionOf(axis, delta) \in own)
                    => amount = Rat(delta, 1)
               /\ (delta # 0 /\ DirectionOf(axis, delta) \notin own)
                    \* amount * (1.5 + |delta| / 20) = delta, times 20
                    => amount.n * (30 + Abs(delta)) = 20 * delta * amount.d
               /\ Abs(amount.n) <= Abs(delta) * amount.d
               /\ amount.n * delta >= 0
               /\ delta # 0 => amount.n # 0]_vars

\* 20px to the left on a notification anchored right: -20 / 2.5 = -8px applied.
C30_Witness ==
    \E id \in IDs :
        /\ comp[id].alive /\ comp[id].swipeDirection = "x"
        /\ ListOf(TheToast(Cur, id)) = "bottom-right"
        /\ comp[id].swipeAmountX.n = -8 * comp[id].swipeAmountX.d

\* C31: a pointer-up that commits a swipe reports the direction of the locked
\* axis and of the sign of the amount on it (x: right if positive, else left;
\* y: down if positive, else up); a direction that was reported does not
\* change; and a pointer-up on a notification that was swiped out commits
\* nothing: no callback, no removal, the gesture state as it was.
C31_SwipeOutDirectionFollowsAxisAndSign ==
    /\ [][\A id \in IDs :
            (PointerUpOn(id) /\ ~comp[id].swipeOut /\ comp'[id].swipeOut)
            => LET c == comp[id]
               IN  /\ c.swipeDirection = "x"
                        => comp'[id].swipeOutDirection
                             = IF c.swipeAmountX.n > 0 THEN "right" ELSE "left"
                   /\ c.swipeDirection = "y"
                        => comp'[id].swipeOutDirection
                             = IF c.swipeAmountY.n > 0 THEN "down" ELSE "up"]_vars
    /\ [][\A id \in IDs :
            (comp[id].swipeOutDirection # "null" /\ comp'[id].alive)
            => comp'[id].swipeOutDirection = comp[id].swipeOutDirection]_vars
    /\ [][\A id \in IDs :
            (PointerUpOn(id) /\ comp[id].swipeOut)
            => /\ comp'[id] = comp[id]
               /\ obs'[id].onDismiss = obs[id].onDismiss
               /\ RemovalsPending(timeouts', id) = RemovalsPending(timeouts, id)]_vars

\* A swipe to the left was committed by a pointer-up, some time after its start.
C31_Witness ==
    \E id \in IDs :
        /\ comp[id].swipeOut /\ comp[id].swipeOutDirection = "left"
        /\ comp[id].swipeDirection = "x" /\ comp[id].swipeAmountX.n < 0
        /\ ~pointer.down /\ ~interacting /\ comp[id].dragStartTime # <<>>
        /\ now > comp[id].dragStartTime[1]


\* C32: a publish that records a height for an id without a ledger entry puts
\* one entry for the id, with the height measured for its component, first in
\* the ledger; a publish for an id that has an entry changes at most the height
\* of that entry, and neither the order nor another entry; and the ledger never
\* holds two entries of one id.
C32_LedgerRecordsOneEntryPerId ==
    /\ [][\A id \in ListIDs, h \in {40, 60} :
            (\E data \in [duration : {Infinity}]
                         \cup [position : {"top-left", "bottom-right"},
                               duration : {Infinity}] :
                PublishListAs(id, data, h))
            => IF FindHeight(heights, id, 1) = -1
               THEN \/ heights' = heights
                    \/ /\ Len(heights') = Len(heights) + 1
                       /\ Tail(heights') = heights
                       /\ heights'[1].toastId = id
                       /\ heights'[1].height = comp'[id].newHeight
               ELSE /\ Len(heights') = Len(heights)
                    /\ \A k \in 1..Len(heights) :
                         IF heights[k].toastId = id
                         THEN /\ heights'[k].toastId = id
                              /\ heights'[k].position = heights[k].position
                              /\ heights'[k].height
                                   \in {comp'[id].newHeight, heights[k].height}
                         ELSE heights'[k] = heights[k]]_vars
    /\ [][\A id \in ListIDs :
            Cardinality({k \in 1..Len(heights') : heights'[k].toastId = id}) <= 1]_vars

\* Two notifications have entries, and the one published first, whose entry is
\* last, was measured again with another height.
C32_Witness ==
    /\ Len(heights) = 2
    /\ heights[1].toastId = 2 /\ heights[1].height = 40
    /\ heights[2].toastId = 1 /\ heights[2].height = 60
    /\ comp[1].alive /\ comp[1].newHeight = 60 /\ published = 3


\* C33: every entry of the Height Ledger has the id of a notification that is
\* in the display list and is not pending removal.
C33_LedgerHoldsOnlyLiveNotifications ==
    \A k \in 1..Len(heights) :
        /\ heights[k].toastId \in IdsOf(toasts)
        /\ ~comp[heights[k].toastId].removed


\* C34: an update published for a notification that is pending removal leaves
\* its record marked for deletion as it was and the notification pending
\* removal, keeps the removals that are scheduled for it, and issues no
\* DismissSignal.
C34_UpdateKeepsPendingRemoval ==
    [][\A id \in IDs, data \in UpdatePayloads, h \in Heights :
        (PublishAs(id, data, h) /\ comp[id].alive /\ comp[id].removed)
        => /\ comp'[id].alive /\ comp'[id].removed
           /\ TheToast(Cur, id).delete => toasts'[FindIndex(toasts', id, 1) + 1].delete
           /\ Removals(timeouts') = Removals(timeouts)
           /\ raf' = raf]_vars


\* C35: the list is not expanded while the display list holds at most one
\* notification.
C35_NotExpandedWithAtMostOne ==
    Len(toasts) <= 1 => ~expanded


\* C36: the height index and the offset of a displayed notification are never
\* negative, and a notification without a ledger entry has index 0 and offset 0.
C36_HeightIndexIsNeverNegative ==
    \A id \in LayoutIDs :
        comp[id].alive
        => /\ heightIndex(Cur, id) >= 0
           /\ offset(Cur, id) >= 0
           /\ ~HasEntry(id) => (heightIndex(Cur, id) = 0 /\ offset(Cur, id) = 0)


\* C37: if from some point on no attention signal is present, a displayed
\* notification that is not loading and whose duration is finite is eventually
\* no longer in the display list.
C37_FiniteDurationEventuallyRemoved ==
    \A id \in IDs :
        <>[](~Paused)
        => []((/\ comp[id].alive
               /\ TheToast(Cur, id).type # "loading"
               /\ ~IsInfinite(TheToast(Cur, id)))
              => <>(id \notin IdsOf(toasts)))


\* C38: once no animation frame, no deferred callback of useSonner and no
\* timeout is waiting, the display list and the headless list hold the same
\* set of ids.
C38_ListsAgreeAtQuiescence ==
    (raf = <<>> /\ headless.deferred = <<>> /\ timeouts = <<>>)
    => IdsOf(toasts) = IdsOf(headless.activeToasts)

====
